---- MODULE Spec2Model ----
(***************************************************************************)
(* Model of the two utilities of the repository:                           *)
(*   utilities/allocstats.py               - slab allocation log replay    *)
(*   utilities/toolchain/binutils/__init__ - BinutilsComponent.build       *)
(* Strings whose characters matter (log lines, tokens, printed fields) are *)
(* sequences of one-character strings, so that strip, split and ljust act  *)
(* on characters exactly as the Python string methods do.                  *)
(***************************************************************************)
EXTENDS Integers, Sequences, FiniteSets, TLC

VARIABLES
    argv,          \* sys.argv: program name followed by the arguments
    f,             \* state of the file object f: "unopened", "open", "closed"
    lines,         \* the list returned by f.readlines()
    idx,           \* position of the for loop in that list (1-based)
    allocations,   \* the dict: a set of items [k |-> address, v |-> <<name, caller>>]
    addr_width,
    name_width,
    pending,       \* items the final for loop has still to visit
    stdout,        \* printed lines, each kept as the three %s fields of its format
    stderr,
    exitcode,      \* process exit status, -1 while the script runs
    pc,            \* position of the script
    bpc,           \* position of BinutilsComponent.build
    calls,         \* os.mkdir / self.execute calls issued by build, with outcome
    destdir,       \* self.manager.destdir
    target,        \* self.manager.target
    makejobs,      \* self.manager.makejobs
    direxists      \* whether 'binutils-build' exists when build starts

avars == <<argv, f, lines, idx, allocations, addr_width, name_width, pending,
           stdout, stderr, exitcode, pc>>
bvars == <<bpc, calls, destdir, target, makejobs, direxists>>
vars == <<avars, bvars>>

----------------------------------------------------------------------------
(* Bounds *)

MaxLines == 3
MaxArgs == 3
MaxJobs == 3

----------------------------------------------------------------------------
(* Characters and words *)

SP == <<" ">>
TAB == <<"\t">>
NL == <<"\n">>

Whitespace == {" ", "\t", "\n", "\r", "\f"}

SLAB == <<"s", "l", "a", "b", ":">>
ALLOCATED == <<"a", "l", "l", "o", "c", "a", "t", "e", "d">>
FREED == <<"f", "r", "e", "e", "d">>

ADDRESS_LABEL == <<"A", "d", "d", "r", "e", "s", "s">>
CACHE_LABEL == <<"C", "a", "c", "h", "e">>
CALLER_LABEL == <<"C", "a", "l", "l", "e", "r">>
RULE7 == <<"=", "=", "=", "=", "=", "=", "=">>
RULE5 == <<"=", "=", "=", "=", "=">>
RULE6 == <<"=", "=", "=", "=", "=", "=">>

A1000 == <<"0", "x", "1", "0", "0", "0">>
A2000 == <<"0", "x", "2", "0", "0", "0">>
AFFFF80 == <<"0", "x", "f", "f", "f", "f", "8", "0">>
SIZE == <<"s", "i", "z", "e">>
N64 == <<"6", "4">>
N128 == <<"1", "2", "8">>
KMALLOC == <<"k", "m", "a", "l", "l", "o", "c">>
FROM == <<"f", "r", "o", "m">>
AT == <<"a", "t">>
FOO == <<"f", "o", "o", "(", ")">>
BAR == <<"b", "a", "r", "(", ")">>
KERN == <<"k", "e", "r", "n", ":">>
RESIZED == <<"r", "e", "s", "i", "z", "e", "d">>

----------------------------------------------------------------------------
(* Python string methods used by allocstats.py *)

\* str.strip(): drop leading and trailing whitespace characters
RECURSIVE lstrip(_)
lstrip(s) ==
    IF s # <<>> /\ Head(s) \in Whitespace THEN lstrip(Tail(s)) ELSE s

RECURSIVE rstrip(_)
rstrip(s) ==
    IF s # <<>> /\ s[Len(s)] \in Whitespace
    THEN rstrip(SubSeq(s, 1, Len(s) - 1))
    ELSE s

strip(s) == rstrip(lstrip(s))

\* index of the first occurrence of the one-character separator, 0 if none
FirstSep(s, sep) ==
    IF \E i \in 1..Len(s) : s[i] = sep[1]
    THEN CHOOSE i \in 1..Len(s) : s[i] = sep[1] /\ \A j \in 1..(i - 1) : s[j] # sep[1]
    ELSE 0

\* str.split(sep, maxsplit): cut at each single separator, at most maxsplit
\* times; the last piece keeps the rest of the string verbatim
RECURSIVE split(_, _, _)
split(s, sep, maxsplit) ==
    IF maxsplit = 0 \/ FirstSep(s, sep) = 0
    THEN <<s>>
    ELSE <<SubSeq(s, 1, FirstSep(s, sep) - 1)>>
         \o split(SubSeq(s, FirstSep(s, sep) + 1, Len(s)), sep, maxsplit - 1)

\* str.ljust(width): pad with spaces on the right, never truncate
ljust(s, width) ==
    IF Len(s) >= width THEN s ELSE s \o [i \in 1..(width - Len(s)) |-> " "]

max(a, b) == IF a >= b THEN a ELSE b

----------------------------------------------------------------------------
(* Log files the script may be given: up to MaxLines lines of LinePool *)

Join(ws, sep) ==
    LET RECURSIVE J(_)
        J(i) == IF i = Len(ws) THEN ws[i] ELSE ws[i] \o sep \o J(i + 1)
    IN  IF ws = <<>> THEN <<>> ELSE J(1)

LinePool ==
    { Join(<<SLAB, ALLOCATED, A1000, SIZE, N64, KMALLOC, FOO>>, SP) \o NL,
      Join(<<SLAB, ALLOCATED, A2000, SIZE, N128, KMALLOC, BAR>>, SP) \o NL,
      Join(<<SLAB, FREED, A1000, SIZE, N64, KMALLOC, FOO>>, SP) \o NL,
      Join(<<SLAB, ALLOCATED, A1000, FROM, KMALLOC, AT, FOO, BAR>>, SP) \o NL,
      Join(<<SLAB, ALLOCATED, AFFFF80, FROM, KMALLOC, AT, FOO>>, SP) \o NL,
      Join(<<SLAB, FREED, AFFFF80, FROM, KMALLOC, AT, FOO>>, SP) \o NL,
      SP \o TAB \o Join(<<SLAB, ALLOCATED, A2000, SIZE, N64, KMALLOC, FOO>>, SP) \o NL,
      Join(<<SLAB, ALLOCATED, <<>>, A2000, SIZE, N64, KMALLOC>>, SP) \o NL,
      SLAB \o TAB \o Join(<<ALLOCATED, A2000, SIZE, N64, KMALLOC, FOO>>, SP) \o NL,
      Join(<<KERN, ALLOCATED, A2000, SIZE, N64, KMALLOC, FOO>>, SP) \o NL,
      Join(<<SLAB, ALLOCATED, A2000, SIZE, N64>>, SP) \o NL,
      Join(<<SLAB, RESIZED, A1000, SIZE, N64, KMALLOC, FOO>>, SP) \o NL,
      NL }

Logs == UNION { [1..n -> LinePool] : n \in 0..MaxLines }

ProgName == "allocstats.py"
Paths == {"slab.log", "missing.log"}
Readable == {"slab.log"}

Argvs == { <<ProgName>> \o a : a \in UNION { [1..n -> Paths] : n \in 0..MaxArgs } }

----------------------------------------------------------------------------
(* allocstats.py *)

\* faulty variant of BadArgc: only a missing argument is rejected
BadArgcTooFew(a) == Len(a) < 2

\* line 20: the argument count check
BadArgc(a) == Len(a) # 2

\* line 21: the usage message, as the pieces of the format
Usage(a) == <<"Usage: ", a[1], " <log file>\n">>

Traceback == <<"Traceback (most recent call last): IOError">>

\* line 27: the tokens of one line
Tokens(raw) == split(strip(raw), SP, 6)

\* line 28: the lines the loop skips
Skipped(line) == Len(line) # 7 \/ line[1] # SLAB

HasKey(allocs, key) == \E e \in allocs : e.k = key

\* faulty variant of Allocated: the cache name is taken one token too far
AllocatedNameOffByOne(allocs, line) ==
    { e \in allocs : e.k # line[3] }
        \cup { [k |-> line[3], v |-> <<line[6], line[7]>>] }

\* faulty variant of Allocated: a list of records instead of a keyed store,
\* so an earlier entry of the address stays
AllocatedNoReplace(allocs, line) ==
    allocs \cup { [k |-> line[3], v |-> <<line[5], line[7]>>] }

\* line 32: allocations[line[2]] = [line[4], line[6]] (Python indexes from 0)
Allocated(allocs, line) ==
    { e \in allocs : e.k # line[3] }
        \cup { [k |-> line[3], v |-> <<line[5], line[7]>>] }

\* faulty variant of Freed: the entry is never removed
FreedKeepsEntry(allocs, line) ==
    [ allocs |-> allocs, raised |-> FALSE ]

\* faulty variant of Freed: no try / except around the del statement
FreedNoTry(allocs, line) ==
    [ allocs |-> { e \in allocs : e.k # line[3] },
      raised |-> ~(\E e \in allocs : e.k = line[3]) ]

\* lines 34-37: del allocations[line[2]] inside try / except KeyError: pass.
\* raised tells whether an exception leaves the statement.
Freed(allocs, line) ==
    [ allocs |-> { e \in allocs : e.k # line[3] }, raised |-> FALSE ]

\* lines 39-43: the two running maxima over allocations.items()
MaxOver(base, S) ==
    IF S = {} THEN base
    ELSE max(base, CHOOSE n \in S : \A m \in S : m <= n)

\* faulty variant of AddrWidth: the running maximum starts at the label's length
AddrWidthFromLabel(allocs) == MaxOver(7, { Len(e.k) : e \in allocs })

AddrWidth(allocs) == MaxOver(0, { Len(e.k) : e \in allocs })
NameWidth(allocs) == MaxOver(0, { Len(e.v[1]) : e \in allocs })

\* lines 45, 46, 49: the three fields of each printed line
HeaderRow(aw, nw) == <<ljust(ADDRESS_LABEL, aw), ljust(CACHE_LABEL, nw), CALLER_LABEL>>
SeparatorRow(aw, nw) == <<ljust(RULE7, aw), ljust(RULE5, nw), RULE6>>
DataRow(e, aw, nw) == <<ljust(e.k, aw), ljust(e.v[1], nw), e.v[2]>>

\* "%s %s %s" % (a, b, c): the text of a printed line
Render(row) == row[1] \o SP \o row[2] \o SP \o row[3]

AInit ==
    /\ argv \in Argvs
    /\ f = "unopened"
    /\ lines = <<>>
    /\ idx = 1
    /\ allocations = {}
    /\ addr_width = 0
    /\ name_width = 0
    /\ pending = {}
    /\ stdout = <<>>
    /\ stderr = <<>>
    /\ exitcode = -1
    /\ pc = "start"

\* lines 20-22
CheckArgs ==
    /\ pc = "start"
    /\ IF BadArgc(argv)
       THEN /\ stderr' = Append(stderr, Usage(argv))
            /\ exitcode' = 1
            /\ pc' = "done"
       ELSE /\ pc' = "open"
            /\ UNCHANGED <<stderr, exitcode>>
    /\ UNCHANGED <<argv, f, lines, idx, allocations, addr_width, name_width,
                   pending, stdout, bvars>>

\* lines 24-25: open() returns a file object, or raises IOError, which nothing
\* catches
Open ==
    /\ pc = "open"
    /\ IF argv[2] \in Readable
       THEN /\ f' = "open"
            /\ pc' = "read"
            /\ UNCHANGED <<stderr, exitcode>>
       ELSE /\ stderr' = Append(stderr, Traceback)
            /\ exitcode' = 1
            /\ pc' = "done"
            /\ UNCHANGED f
    /\ allocations' = {}
    /\ UNCHANGED <<argv, lines, idx, addr_width, name_width, pending, stdout, bvars>>

\* line 26: f.readlines() returns every line of the file
ReadLines ==
    /\ pc = "read"
    /\ \E content \in Logs : lines' = content
    /\ idx' = 1
    /\ pc' = "replay"
    /\ UNCHANGED <<argv, f, allocations, addr_width, name_width, pending,
                   stdout, stderr, exitcode, bvars>>

\* line 26: f.readlines() raises IOError on a read error, which nothing catches
ReadError ==
    /\ pc = "read"
    /\ stderr' = Append(stderr, Traceback)
    /\ exitcode' = 1
    /\ pc' = "done"
    /\ UNCHANGED <<argv, f, lines, idx, allocations, addr_width, name_width,
                   pending, stdout, bvars>>

\* lines 26-37: one iteration of the loop
ReplayLine ==
    /\ pc = "replay"
    /\ idx <= Len(lines)
    /\ LET line == Tokens(lines[idx]) IN
       IF Skipped(line)
       THEN UNCHANGED <<allocations, stderr, exitcode, pc>>
       ELSE IF line[2] = ALLOCATED
       THEN /\ allocations' = Allocated(allocations, line)
            /\ UNCHANGED <<stderr, exitcode, pc>>
       ELSE IF line[2] = FREED
       THEN IF Freed(allocations, line).raised
            THEN /\ stderr' = Append(stderr, <<"Traceback (most recent call last): KeyError">>)
                 /\ exitcode' = 1
                 /\ pc' = "done"
                 /\ UNCHANGED allocations
            ELSE /\ allocations' = Freed(allocations, line).allocs
                 /\ UNCHANGED <<stderr, exitcode, pc>>
       ELSE UNCHANGED <<allocations, stderr, exitcode, pc>>
    /\ idx' = idx + 1
    /\ UNCHANGED <<argv, f, lines, addr_width, name_width, pending, stdout, bvars>>

\* lines 39-43, entered when the loop has consumed the last line
ComputeWidths ==
    /\ pc = "replay"
    /\ idx > Len(lines)
    /\ addr_width' = AddrWidth(allocations)
    /\ name_width' = NameWidth(allocations)
    /\ pc' = "header"
    /\ UNCHANGED <<argv, f, lines, idx, allocations, pending, stdout, stderr,
                   exitcode, bvars>>

\* line 45
PrintHeader ==
    /\ pc = "header"
    /\ stdout' = Append(stdout, HeaderRow(addr_width, name_width))
    /\ pc' = "separator"
    /\ UNCHANGED <<argv, f, lines, idx, allocations, addr_width, name_width,
                   pending, stderr, exitcode, bvars>>

\* line 46, then the loop of line 48 starts over allocations.items()
PrintSeparator ==
    /\ pc = "separator"
    /\ stdout' = Append(stdout, SeparatorRow(addr_width, name_width))
    /\ pending' = allocations
    /\ pc' = "rows"
    /\ UNCHANGED <<argv, f, lines, idx, allocations, addr_width, name_width,
                   stderr, exitcode, bvars>>

\* lines 48-49: one iteration; a dict yields its items in no specified order
PrintRow ==
    /\ pc = "rows"
    /\ \E e \in pending :
        /\ stdout' = Append(stdout, DataRow(e, addr_width, name_width))
        /\ pending' = pending \ {e}
    /\ UNCHANGED <<argv, f, lines, idx, allocations, addr_width, name_width,
                   stderr, exitcode, pc, bvars>>

\* end of the script: the interpreter exits with status 0; no statement of the
\* script closes f
Finish ==
    /\ pc = "rows"
    /\ pending = {}
    /\ exitcode' = 0
    /\ pc' = "done"
    /\ UNCHANGED <<argv, f, lines, idx, allocations, addr_width, name_width,
                   pending, stdout, stderr, bvars>>

----------------------------------------------------------------------------
(* BinutilsComponent.build *)

version == "2.21"
BuildDir == "binutils-build"

Destdirs == {"/usr/local/cross", "/opt/kiwi", "build/toolchain"}
Targets == {"x86_64-kiwi", "i686-kiwi"}

\* lines 31-38: confopts, as the pieces appended to it
ConfOpts(dest, tgt) ==
    <<"--prefix=", dest, " ", "--target=", tgt, " ", "--disable-werror ",
      "--enable-gold ">>

\* faulty variant of BuildCommands: install issued before the build
BuildCommandsInstallFirst(dest, tgt, jobs) ==
    << <<"../binutils-", version, "/configure ">> \o ConfOpts(dest, tgt),
       <<"make install">>,
       <<"make -j", ToString(jobs)>> >>

\* lines 41-43: the commands handed to self.execute, in program order
BuildCommands(dest, tgt, jobs) ==
    << <<"../binutils-", version, "/configure ">> \o ConfOpts(dest, tgt),
       <<"make -j", ToString(jobs)>>,
       <<"make install">> >>

\* self.execute(command, directory) returns, or raises
ExecuteOutcomes == BOOLEAN

\* Python statement sequencing: the next statement runs only when the call
\* returned; an exception leaves build, which has no try statement
AfterCall(ok, next) == IF ok THEN next ELSE "raised"

BInit ==
    /\ bpc = "mkdir"
    /\ calls = <<>>
    /\ destdir \in Destdirs
    /\ target \in Targets
    /\ makejobs \in 1..MaxJobs
    /\ direxists \in BOOLEAN

\* line 28: os.mkdir raises OSError when the directory exists
Mkdir ==
    /\ bpc = "mkdir"
    /\ calls' = Append(calls, [op |-> "mkdir", arg |-> <<BuildDir>>, cwd |-> ".",
                               ok |-> ~direxists])
    /\ bpc' = AfterCall(~direxists, "configure")
    /\ UNCHANGED <<destdir, target, makejobs, direxists, avars>>

\* self.execute(command, 'binutils-build') with the n-th command
Execute(n, next) ==
    /\ \E ok \in ExecuteOutcomes :
        /\ calls' = Append(calls, [op |-> "execute",
                                   arg |-> BuildCommands(destdir, target, makejobs)[n],
                                   cwd |-> BuildDir, ok |-> ok])
        /\ bpc' = AfterCall(ok, next)
    /\ UNCHANGED <<destdir, target, makejobs, direxists, avars>>

\* line 41
Configure ==
    /\ bpc = "configure"
    /\ Execute(1, "make")

\* line 42
Make ==
    /\ bpc = "make"
    /\ Execute(2, "install")

\* line 43
MakeInstall ==
    /\ bpc = "install"
    /\ Execute(3, "done")

----------------------------------------------------------------------------
(* Specifications: each program runs on its own *)

AIdle ==
    /\ argv = <<ProgName>>
    /\ f = "unopened"
    /\ lines = <<>>
    /\ idx = 1
    /\ allocations = {}
    /\ addr_width = 0
    /\ name_width = 0
    /\ pending = {}
    /\ stdout = <<>>
    /\ stderr = <<>>
    /\ exitcode = -1
    /\ pc = "idle"

BIdle ==
    /\ bpc = "idle"
    /\ calls = <<>>
    /\ destdir = "/opt/kiwi"
    /\ target = "x86_64-kiwi"
    /\ makejobs = 1
    /\ direxists = FALSE

Init == AInit /\ BIdle

Next ==
    \/ CheckArgs
    \/ Open
    \/ ReadLines
    \/ ReadError
    \/ ReplayLine
    \/ ComputeWidths
    \/ PrintHeader
    \/ PrintSeparator
    \/ PrintRow
    \/ Finish

Spec == Init /\ [][Next]_vars

InitBuild == AIdle /\ BInit

NextBuild ==
    \/ Mkdir
    \/ Configure
    \/ Make
    \/ MakeInstall

SpecBuild == InitBuild /\ [][NextBuild]_vars

----------------------------------------------------------------------------
(* Properties.  The log is read back from `lines` and interpreted line by  *)
(* line, independently of the ledger the replay builds.                    *)

\* the tokens of every line of the log
Toks == [i \in DOMAIN lines |-> Tokens(lines[i])]

\* line i of the tokenized log T is a qualifying 'slab: <verb> ...' line
IsEvent(T, i, verb) ==
    /\ Len(T[i]) = 7
    /\ T[i][1] = SLAB
    /\ T[i][2] = verb

\* the script ran to its end and exited normally
Finished == pc = "done" /\ exitcode = 0

\* a printed field without the spaces ljust added (tokens hold no space)
RECURSIVE Unpad(_)
Unpad(s) ==
    IF s # <<>> /\ s[Len(s)] = " " THEN Unpad(SubSeq(s, 1, Len(s) - 1)) ELSE s

DataRows == SubSeq(stdout, 3, Len(stdout))

PrintedAddrs == { Unpad(DataRows[r][1]) : r \in DOMAIN DataRows }

\* addresses with an 'allocated' line that no later 'freed' line follows
LeakedAddrs(T) ==
    { T[i][3] : i \in { i \in DOMAIN T :
        /\ IsEvent(T, i, ALLOCATED)
        /\ \A j \in (i + 1)..Len(T) :
              ~(IsEvent(T, j, FREED) /\ T[j][3] = T[i][3]) } }

\* 'allocated' lines that are the last event of their address
SurvivorIdx(T) ==
    { i \in DOMAIN T :
        /\ IsEvent(T, i, ALLOCATED)
        /\ \A j \in (i + 1)..Len(T) :
              ~((IsEvent(T, j, FREED) \/ IsEvent(T, j, ALLOCATED)) /\ T[j][3] = T[i][3]) }

Longest(S) == IF S = {} THEN 0 ELSE CHOOSE n \in S : \A m \in S : m <= n

\* C1: once the script has finished, the addresses of the printed data rows
\* are exactly the addresses with a qualifying 'allocated' line that no later
\* qualifying 'freed' line follows, and the loop has gone through every line.
C1_ReportIsLeaks ==
    Finished =>
        /\ PrintedAddrs = LeakedAddrs(Toks)
        /\ idx = Len(lines) + 1

C1_Witness ==
    /\ Finished
    /\ PrintedAddrs # {}
    /\ LET T == Toks IN
       \E i \in DOMAIN T : \E j \in DOMAIN T :
        /\ i < j
        /\ IsEvent(T, i, ALLOCATED)
        /\ IsEvent(T, j, FREED)
        /\ T[i][3] = T[j][3]
        /\ T[i][3] \notin PrintedAddrs

ExampleLog ==
    << Join(<<SLAB, ALLOCATED, A1000, SIZE, N64, KMALLOC, FOO>>, SP) \o NL,
       Join(<<SLAB, ALLOCATED, A2000, SIZE, N128, KMALLOC, BAR>>, SP) \o NL,
       Join(<<SLAB, FREED, A1000, SIZE, N64, KMALLOC, FOO>>, SP) \o NL >>

\* C2 as stated: the three-line example log yields one data row with address
\* 0x2000, cache name kmalloc and caller bar().
C2_ExampleAsStated ==
    (Finished /\ lines = ExampleLog) =>
        /\ Len(DataRows) = 1
        /\ Unpad(DataRows[1][1]) = A2000
        /\ Unpad(DataRows[1][2]) = KMALLOC
        /\ DataRows[1][3] = BAR

\* C2 amended: the three-line example log yields one data row with address
\* 0x2000, cache name 128 (the fifth token of the line) and caller bar().
C2_ExampleAmended ==
    (Finished /\ lines = ExampleLog) =>
        /\ Len(DataRows) = 1
        /\ Unpad(DataRows[1][1]) = A2000
        /\ Unpad(DataRows[1][2]) = N128
        /\ DataRows[1][3] = BAR
        /\ Render(DataRows[1]) = A2000 \o SP \o N128 \o SP \o BAR

C2_Witness == Finished /\ lines = ExampleLog

\* C3: the ledger never holds two entries for one address, and the finished
\* report has exactly one row for each address whose last event is an
\* 'allocated' line, carrying that line's cache name and caller.
C3_LastWriteWins ==
    /\ \A d \in allocations : \A e \in allocations : d.k = e.k => d = e
    /\ Finished =>
          LET T == Toks IN
          \A i \in SurvivorIdx(T) :
              /\ Cardinality({ r \in DOMAIN DataRows : Unpad(DataRows[r][1]) = T[i][3] }) = 1
              /\ \A r \in DOMAIN DataRows :
                    Unpad(DataRows[r][1]) = T[i][3] =>
                        /\ Unpad(DataRows[r][2]) = T[i][5]
                        /\ DataRows[r][3] = T[i][7]

C3_Witness ==
    /\ Finished
    /\ LET T == Toks IN
       \E i \in DOMAIN T : \E j \in SurvivorIdx(T) :
        /\ i < j
        /\ IsEvent(T, i, ALLOCATED)
        /\ T[i][3] = T[j][3]
        /\ T[i][5] # T[j][5]
        /\ T[i][7] # T[j][7]
        /\ \A m \in (i + 1)..(j - 1) : ~(IsEvent(T, m, FREED) /\ T[m][3] = T[i][3])

\* C4: replaying a qualifying 'freed' line whose address has no entry leaves
\* the ledger as it was, raises nothing, and the loop moves to the next line.
C4_FreedAbsent ==
    [][ ( /\ pc = "replay"
          /\ idx <= Len(lines)
          /\ IsEvent(Toks, idx, FREED)
          /\ \A e \in allocations : e.k # Toks[idx][3] )
        => ( /\ allocations' = allocations
             /\ pc' = "replay"
             /\ idx' = idx + 1
             /\ exitcode' = -1
             /\ stderr' = stderr ) ]_vars

C4_Witness ==
    /\ pc = "replay"
    /\ idx = 3
    /\ IsEvent(Toks, 1, ALLOCATED)
    /\ IsEvent(Toks, 2, FREED)
    /\ Toks[2][3] # Toks[1][3]
    /\ \E e \in allocations : e.k = Toks[1][3]

\* str.split(): the whitespace-separated tokens of a line
RECURSIVE WsTokens(_)
WsTokens(s) ==
    LET t == lstrip(s)
        n == IF \E i \in 1..Len(t) : t[i] \in Whitespace
             THEN CHOOSE i \in 1..Len(t) :
                      t[i] \in Whitespace /\ \A j \in 1..(i - 1) : t[j] \notin Whitespace
             ELSE Len(t) + 1
    IN  IF t = <<>> THEN <<>>
        ELSE <<SubSeq(t, 1, n - 1)>> \o WsTokens(SubSeq(t, n, Len(t)))

\* C5: replaying a line that has fewer than 7 whitespace-separated tokens, or
\* whose first token is not 'slab:', leaves the ledger unchanged and raises
\* nothing.
C5_MalformedIgnored ==
    [][ ( /\ pc = "replay"
          /\ idx <= Len(lines)
          /\ ( \/ Len(WsTokens(lines[idx])) < 7
               \/ WsTokens(lines[idx])[1] # SLAB ) )
        => ( /\ allocations' = allocations
             /\ exitcode' = exitcode ) ]_vars

\* C6: with an argument count other than one the script ends with the usage
\* message on standard error and status 1, having opened no file, read no
\* line and printed nothing.
C6_UsageExit ==
    (Len(argv) - 1 # 1 /\ pc # "start") =>
        /\ pc = "done"
        /\ exitcode = 1
        /\ stderr = << <<"Usage: ", argv[1], " <log file>\n">> >>
        /\ f = "unopened"
        /\ lines = <<>>
        /\ idx = 1
        /\ allocations = {}
        /\ stdout = <<>>

C6_Witness == pc = "done" /\ Len(argv) - 1 >= 2 /\ exitcode = 1

\* offsets (0-based) at which the second and third field of a printed line start
NameOffset(row) == Len(row[1]) + 1
CallerOffset(row) == Len(row[1]) + 1 + Len(row[2]) + 1

\* every two neighbouring fields of the line are separated by one space only
SingleSpaced(raw) ==
    \A n \in 1..(Len(raw) - 1) : ~(raw[n] = " " /\ raw[n + 1] = " ")

\* C7: in the finished report the cache-name field starts at the same offset
\* in every line (header, separator, data rows), and so does the caller field.
\* Stated for the logs in which no line holds a run of spaces, where the
\* script's tokens are the whitespace-separated ones.
C7_Aligned ==
    (Finished /\ \A i \in DOMAIN lines : SingleSpaced(lines[i])) =>
        \A r \in DOMAIN stdout : \A q \in DOMAIN stdout :
            /\ NameOffset(stdout[r]) = NameOffset(stdout[q])
            /\ CallerOffset(stdout[r]) = CallerOffset(stdout[q])

\* C8: once computed, addr_width is the length of the longest address whose
\* last event is an 'allocated' line and name_width the length of the longest
\* cache name of those lines (0 when there is none); freed and overwritten
\* entries do not count; with no survivor the finished output is the header
\* line and the separator line only.
C8_Widths ==
    (pc \in {"header", "separator", "rows"} \/ Finished) =>
        LET T == Toks
            S == SurvivorIdx(T)
        IN  /\ addr_width = Longest({ Len(T[i][3]) : i \in S })
            /\ name_width = Longest({ Len(T[i][5]) : i \in S })
            /\ (Finished /\ S = {}) =>
                  /\ addr_width = 0
                  /\ name_width = 0
                  /\ stdout = << <<ADDRESS_LABEL, CACHE_LABEL, CALLER_LABEL>>,
                                 <<RULE7, RULE5, RULE6>> >>

C8_Witness ==
    /\ Finished
    /\ LET T == Toks
           S == SurvivorIdx(T)
       IN  /\ S # {}
           /\ \E i \in DOMAIN T :
               /\ IsEvent(T, i, ALLOCATED)
               /\ i \notin S
               /\ Len(T[i][3]) > addr_width
           /\ \E i \in DOMAIN T :
               /\ IsEvent(T, i, ALLOCATED)
               /\ i \notin S
               /\ Len(T[i][5]) > name_width

\* C9: when the run has ended the file is not left open: it was never opened
\* on the argument-count error path, and it is closed when the script has
\* read every line and completed normally.
C9_FileReleased ==
    pc = "done" =>
        /\ Len(argv) - 1 # 1 => f = "unopened"
        /\ exitcode = 0 => f = "closed"

\* C10: build issues os.mkdir('binutils-build') first, then configure,
\* 'make -j<makejobs>' and 'make install' through execute, each in
\* 'binutils-build', each at most once and only after every earlier call
\* returned; a call that raises ends build, and build is done only after all
\* four returned.
C10_BuildOrder ==
    /\ Len(calls) <= 4
    /\ \A i \in DOMAIN calls :
        /\ i = 1 => calls[i].op = "mkdir" /\ calls[i].arg = <<"binutils-build">>
        /\ i > 1 => calls[i].op = "execute" /\ calls[i].cwd = "binutils-build"
        /\ i = 2 => calls[i].arg[1] = "../binutils-" /\ calls[i].arg[3] = "/configure "
        /\ i = 3 => calls[i].arg = <<"make -j", ToString(makejobs)>>
        /\ i = 4 => calls[i].arg = <<"make install">>
        /\ i < Len(calls) => calls[i].ok
    /\ bpc = "raised" <=> (calls # <<>> /\ ~calls[Len(calls)].ok)
    /\ bpc = "done" <=> (Len(calls) = 4 /\ calls[4].ok)

C10_Witness ==
    /\ bpc = "raised"
    /\ Len(calls) = 3
    /\ calls[3].arg[1] = "make -j"

====
